---- MODULE Spec2Model ----
(***************************************************************************)
(* AutoCompress: binary resolution (resolve.ts) and subprocess             *)
(* orchestration (native.ts), modelled as a state machine.                 *)
(*                                                                         *)
(* Every await of the source is a yield point: the code between two awaits *)
(* runs as one atomic step of the event loop, and the completion of the    *)
(* awaited operation (a file-system call, a child-process event, a timer)  *)
(* is the next step of that call.                                          *)
(***************************************************************************)
EXTENDS Integers, Sequences, FiniteSets, TLC

\* ------------------------------------------------------------ bounds
\* testBinaries invocations (one IPC call per paste / drop event), in any overlap
NumTestCalls == 2
\* validation child processes alive at once (running, or killed and not yet closed)
MaxValidations == 2
\* stdout "data" events delivered to one child process
MaxChunks == 2

\* handleFile invocations (index.ts fans out one per oversized file)
NumCompressCalls == 2
\* paste and drop events of one session, each with its testBinaries call and its
\* handleFile call
MaxEvents == 1
\* files of a batch that are not compressed
MaxOthers == 1
\* readings of Date.now() beyond the first
MaxClock == 1

TCalls == 1..NumTestCalls
CCalls == 1..NumCompressCalls
VIds == 1..MaxValidations
Bins == {"ffmpeg", "ffprobe"}
Platforms == {"win32", "darwin", "linux"}
\* undefined / empty string: both are falsy in `if (userPath)` and `if (cache[bin])`
None == ""

VARIABLES
    platform,       \* process.platform
    cache,          \* resolve.ts `cache`: bin -> path, None when unset
    tb,             \* testBinaries calls: position and the locals of the running resolveBinary
    rres,           \* what the resolveBinary each call awaited returned or threw
    tres,           \* what testBinaries returned
    searchedPaths,  \* resolveBinary's local searchedPaths
    val,            \* validateBinary invocations: child process, timer, promise
    settledBy,      \* history: the signal that settled the validation each call awaited
    lateSettle,     \* history: resolve or reject was invoked after a validation's timeout fired
    passedOver,     \* history: the loop went past a candidate that existed without validating
                    \* it, or past one whose version query had exited 0 naming the tool
    validated       \* history: the path in cache[bin] was written when its own version
                    \* query, made for bin, had exited 0 naming the tool

VARIABLES
    clock,          \* Date.now()
    files,          \* the temp directory: <<path, by>>, by the handleFile call that wrote it
    hf,             \* handleFile calls: position and locals
    hres,           \* what handleFile returned
    pr,             \* getVideoDuration: the probe child process (none, running, failed;
                    \* closed: exited with code 0; closedNonZero)
    en,             \* compressVideo: the encoder child process, its timer and promise
    timedOut        \* history: the timer of the call fired while its encoder had not
                    \* closed and its promise was pending

locVars == <<platform, cache, tb, rres, tres, searchedPaths, val, settledBy, lateSettle,
             passedOver, validated>>

cmpVars == <<clock, files, hf, hres, pr, en, timedOut>>

VARIABLES
    listeners,      \* the document's event types that have a listener of the plugin
    started,        \* history: the last call of the plugin's interface was start()
    batch,          \* handleFiles: its position and locals (the files it was given)
    uploads         \* the calls of UploadManager.addFiles, each the list of files it got

plugVars == <<listeners, started, batch, uploads>>

vars == <<locVars, cmpVars, plugVars>>

\* -------------------------------------------------------- resolve.ts: data

\* The user paths a caller may pass: none, a relative one, one that only Windows
\* takes as absolute, one that every platform takes as absolute.
UserPaths == {None, "bin/tool", "C:\\tools\\tool.exe", "/opt/tools/tool"}

\* What the path starts with: nothing that roots it, a drive and a separator, a separator.
PathRoot(p) ==
    CASE p = "bin/tool" -> "none"
      [] p = "C:\\tools\\tool.exe" -> "drive"
      [] OTHER -> "slash"

\* node:path isAbsolute under process.platform
isAbsolute(p) ==
    IF platform = "win32" THEN PathRoot(p) \in {"drive", "slash"}
    ELSE PathRoot(p) = "slash"

candidatePaths(bin) ==
    CASE platform = "win32" ->
            IF bin = "ffmpeg"
            THEN << "C:\\ffmpeg\\bin\\ffmpeg.exe",
                    "C:\\Program Files\\ffmpeg\\bin\\ffmpeg.exe",
                    "C:\\Program Files (x86)\\ffmpeg\\bin\\ffmpeg.exe" >>
            ELSE << "C:\\ffmpeg\\bin\\ffprobe.exe",
                    "C:\\Program Files\\ffmpeg\\bin\\ffprobe.exe",
                    "C:\\Program Files (x86)\\ffmpeg\\bin\\ffprobe.exe" >>
      [] platform = "darwin" ->
            IF bin = "ffmpeg"
            THEN << "/opt/homebrew/bin/ffmpeg", "/usr/local/bin/ffmpeg", "/usr/bin/ffmpeg" >>
            ELSE << "/opt/homebrew/bin/ffprobe", "/usr/local/bin/ffprobe", "/usr/bin/ffprobe" >>
      [] OTHER ->
            IF bin = "ffmpeg"
            THEN << "/usr/bin/ffmpeg", "/usr/local/bin/ffmpeg", "/bin/ffmpeg",
                    "/snap/bin/ffmpeg", "/app/bin/ffmpeg" >>
            ELSE << "/usr/bin/ffprobe", "/usr/local/bin/ffprobe", "/bin/ffprobe",
                    "/snap/bin/ffprobe", "/app/bin/ffprobe" >>

\* -------------------------------------------- resolve.ts: validateBinary, pure parts

\* The characters of binName, as validateBinary receives it from resolveBinary.
binName(bin) ==
    IF bin = "ffmpeg" THEN <<"f", "f", "m", "p", "e", "g">>
    ELSE <<"f", "f", "p", "r", "o", "b", "e">>

\* String.prototype.toLowerCase, one character
lowerChar(c) ==
    CASE c = "F" -> "f"
      [] c = "M" -> "m"
      [] c = "P" -> "p"
      [] c = "E" -> "e"
      [] c = "G" -> "g"
      [] OTHER -> c

toLowerCase(s) == [i \in 1..Len(s) |-> lowerChar(s[i])]

\* String.prototype.includes
includes(s, sub) ==
    \E i \in 0..(Len(s) - Len(sub)) : SubSeq(s, i + 1, i + Len(sub)) = sub

\* The stdout chunks a child may write: the encoder's banner in two pieces and in
\* mixed case, and the probe's banner.
Chunks == { <<"F", "F", "m">>, <<"p", "e", "g">>, <<"f", "f", "p", "r", "o", "b", "e">> }

\* What a child writes to stdout before it closes: up to MaxChunks "data" events.
ChunkSeqs == UNION {[1..n -> Chunks] : n \in 0..MaxChunks}

ExitCodes == {0, 1}

\* closeRejects without its exit-code test: the output alone decides.
closeRejects_outputOnly(code, out, bin) ==
    ~includes(toLowerCase(out), binName(bin))

\* The close handler's test, resolve.ts line 61: TRUE when the validation is rejected.
closeRejects(code, out, bin) ==
    code # 0 \/ ~includes(toLowerCase(out), binName(bin))

\* A promise settles once: resolve / reject on a settled promise changes nothing.
\* `calls` counts the invocations of resolve and reject.
Settle(v, o) ==
    [v EXCEPT !.outcome = IF v.outcome = "none" THEN o ELSE v.outcome,
              !.calls = v.calls + 1]

\* A validateBinary invocation: its child process (st: running; killed, that is
\* signalled by p.kill() and not yet closed), the handlers' closure (out,
\* timeExceeded) and its promise (outcome).
FreeVal ==
    [st |-> "free", owner |-> 0, bin |-> "ffmpeg", path |-> None, out |-> <<>>,
     timeExceeded |-> FALSE, outcome |-> "none", calls |-> 0]

\* The slot a new child process takes.
FreeSlots == {v \in VIds : val[v].st = "free"}
NextSlot == CHOOSE v \in FreeSlots : \A w \in FreeSlots : v <= w

\* ------------------------------------------------------ resolve.ts: pullBinary

\* pullBinary that resolves the tool when the cache has no path for it.
pullBinary_resolves(bin) ==
    [ok |-> TRUE, val |-> IF cache[bin] = None THEN candidatePaths(bin)[1] ELSE cache[bin]]

\* pullBinary (lines 84-88): the cached path, or the throw
pullBinary(bin) ==
    IF cache[bin] = None
    THEN [ok |-> FALSE, val |-> "NotResolved"]
    ELSE [ok |-> TRUE, val |-> cache[bin]]

\* ---------------------------------------------------- resolve.ts: resolveBinary

\* A returned path (hit: it came from the cache on entry; valid: history, as for
\* `validated`) or a thrown error.
Ok(p, hit, valid) == [ok |-> TRUE, val |-> p, hit |-> hit, valid |-> valid]
Err(e) == [ok |-> FALSE, val |-> e, hit |-> FALSE, valid |-> FALSE]
NoRes == [ok |-> FALSE, val |-> "none", hit |-> FALSE, valid |-> FALSE]

\* TRUE when `out` names the tool in any mix of cases (what the history records).
NamesTool(out, bin) ==
    \E i \in 1..Len(out) :
        /\ i + Len(binName(bin)) - 1 <= Len(out)
        /\ \A j \in 1..Len(binName(bin)) :
              \/ out[i + j - 1] = binName(bin)[j]
              \/ <<out[i + j - 1], binName(bin)[j]>> \in
                    {<<"F", "f">>, <<"M", "m">>, <<"P", "p">>, <<"E", "e">>, <<"G", "g">>}

\* The signals that settle a validation, as the history records them: the timer, a
\* spawn error, a close with exit code 0 and the tool named in stdout, any other close.
NoSignal == "none"
Signal(sig, code, out, bin) ==
    IF sig # "close" THEN sig
    ELSE IF code = 0 /\ NamesTool(out, bin) THEN "close-pass"
    ELSE "close-fail"

IdleCall == [pc |-> "idle", bin |-> "ffmpeg", userPath |-> None, idx |-> 0]
DoneCall == [IdleCall EXCEPT !.pc = "done"]

\* The path the running resolve of call t examines: the user path, or candidate idx.
CurrentPath(t) ==
    IF tb[t].idx = 0 THEN tb[t].userPath ELSE candidatePaths(tb[t].bin)[tb[t].idx]

\* `if (cache[bin])` (line 94)
cacheHit(bin) == cache[bin] # None

\* relativeRejected without the test: every user path goes on to fileExists.
relativeRejected_never(userPath) == FALSE

\* `if (!path.isAbsolute(userPath))` (line 99)
relativeRejected(userPath) == ~isAbsolute(userPath)

\* userGiven without the early exit: a failed user path falls through to the loop.
userGiven_fallsThrough(t) == FALSE

\* The running resolve of call t is inside `if (userPath) { ... }` (lines 98-108),
\* which ends in a return or a throw.
userGiven(t) == tb[t].idx = 0

\* resolveBinary up to its first await (lines 94-113).
resolveBinary(t, userPath, bin) ==
    /\ IF cacheHit(bin)
       THEN /\ tb' = [tb EXCEPT ![t] = [pc |-> "ret", bin |-> bin, userPath |-> userPath, idx |-> 0]]
            /\ rres' = [rres EXCEPT ![t] = Ok(cache[bin], TRUE, validated[bin])]
            /\ searchedPaths' = [searchedPaths EXCEPT ![t] = <<>>]
       ELSE IF userPath # None
       THEN IF relativeRejected(userPath)
            THEN /\ tb' = [tb EXCEPT ![t] = [pc |-> "ret", bin |-> bin, userPath |-> userPath, idx |-> 0]]
                 /\ rres' = [rres EXCEPT ![t] = Err("InvalidConfig")]
                 /\ searchedPaths' = [searchedPaths EXCEPT ![t] = <<>>]
            ELSE /\ tb' = [tb EXCEPT ![t] = [pc |-> "exists", bin |-> bin, userPath |-> userPath, idx |-> 0]]
                 /\ rres' = [rres EXCEPT ![t] = NoRes]
                 /\ searchedPaths' = [searchedPaths EXCEPT ![t] = <<>>]
       ELSE /\ tb' = [tb EXCEPT ![t] = [pc |-> "exists", bin |-> bin, userPath |-> userPath, idx |-> 1]]
            /\ rres' = [rres EXCEPT ![t] = NoRes]
            /\ searchedPaths' = [searchedPaths EXCEPT ![t] = <<candidatePaths(bin)[1]>>]
    /\ settledBy' = [settledBy EXCEPT ![t] = NoSignal]
    /\ UNCHANGED <<platform, cache, val, lateSettle, passedOver, validated>>

\* LoopNext stepping over the candidate after the current one when two are left.
LoopNext_skipsOne(t) ==
    IF tb[t].idx + 1 < Len(candidatePaths(tb[t].bin))
    THEN /\ tb' = [tb EXCEPT ![t].pc = "exists", ![t].idx = tb[t].idx + 2]
         /\ searchedPaths' = [searchedPaths EXCEPT
                                ![t] = Append(@, candidatePaths(tb[t].bin)[tb[t].idx + 2])]
         /\ rres' = rres
    ELSE /\ tb' = [tb EXCEPT ![t].pc = "ret"]
         /\ rres' = [rres EXCEPT ![t] = Err("NotResolved")]
         /\ UNCHANGED searchedPaths

\* The for loop's next iteration (lines 110-113), or the throw after it (line 124).
LoopNext(t) ==
    IF tb[t].idx < Len(candidatePaths(tb[t].bin))
    THEN /\ tb' = [tb EXCEPT ![t].pc = "exists", ![t].idx = tb[t].idx + 1]
         /\ searchedPaths' = [searchedPaths EXCEPT
                                ![t] = Append(@, candidatePaths(tb[t].bin)[tb[t].idx + 1])]
         /\ rres' = rres
    ELSE /\ tb' = [tb EXCEPT ![t].pc = "ret"]
         /\ rres' = [rres EXCEPT ![t] = Err("NotResolved")]
         /\ UNCHANGED searchedPaths

\* fileExists settles (lines 102-105 for a user path, 113-115 for a candidate); with
\* the file there, validateBinary spawns the child and arms its timer (lines 44-53).
FileExistsResult(t, exists) ==
    /\ tb[t].pc = "exists"
    /\ IF exists
       THEN /\ FreeSlots # {}
            /\ val' = [val EXCEPT ![NextSlot] =
                         [FreeVal EXCEPT !.st = "running", !.owner = t,
                                         !.bin = tb[t].bin, !.path = CurrentPath(t)]]
            /\ tb' = [tb EXCEPT ![t].pc = "validate"]
            /\ UNCHANGED <<rres, searchedPaths>>
       ELSE /\ val' = val
            /\ IF userGiven(t)
               THEN /\ tb' = [tb EXCEPT ![t].pc = "ret"]
                    /\ rres' = [rres EXCEPT ![t] = Err("NotFound")]
                    /\ UNCHANGED searchedPaths
               ELSE LoopNext(t)
    /\ settledBy' = [settledBy EXCEPT ![t] = NoSignal]
    /\ passedOver' = (passedOver \/ (exists /\ tb'[t].pc # "validate"))
    /\ UNCHANGED <<platform, cache, tres, lateSettle, validated>>
    /\ UNCHANGED <<cmpVars, plugVars>>

\* What resolveBinary does when the validateBinary it awaits settles with outcome o
\* (lines 105-107 for a user path, 114-120 for a candidate).
AfterValidate(t, o, proof) ==
    IF o = "ok"
    THEN /\ cache' = [cache EXCEPT ![tb[t].bin] = CurrentPath(t)]
         /\ validated' = [validated EXCEPT ![tb[t].bin] = proof]
         /\ tb' = [tb EXCEPT ![t].pc = "ret"]
         /\ rres' = [rres EXCEPT ![t] = Ok(CurrentPath(t), FALSE, proof)]
         /\ UNCHANGED searchedPaths
    ELSE /\ UNCHANGED <<cache, validated>>
         /\ IF userGiven(t)
            THEN /\ tb' = [tb EXCEPT ![t].pc = "ret"]
                 /\ rres' = [rres EXCEPT ![t] = Err(o)]
                 /\ UNCHANGED searchedPaths
            ELSE LoopNext(t)

\* The promise of validation v is pending: the resolveBinary that spawned it awaits it.
Awaited(v) ==
    /\ val[v].st # "free"
    /\ val[v].outcome = "none"

\* A handler of validation v ran on signal sig and left the closure and promise as w;
\* the slot then holds `kept`. When the handler settled the promise, the awaiting
\* resolveBinary goes on.
Handled(v, w, kept, sig, code) ==
    /\ val' = [val EXCEPT ![v] = kept]
    /\ lateSettle' = (lateSettle \/ (val[v].timeExceeded /\ w.calls > val[v].calls))
    /\ IF Awaited(v) /\ w.outcome # "none"
       THEN /\ AfterValidate(val[v].owner, w.outcome,
                              /\ Signal(sig, code, w.out, tb[val[v].owner].bin) = "close-pass"
                              /\ w.path = CurrentPath(val[v].owner))
            /\ settledBy' = [settledBy EXCEPT ![val[v].owner] =
                                IF tb'[val[v].owner].pc = "ret"
                                THEN Signal(sig, code, w.out, w.bin)
                                ELSE NoSignal]
            /\ passedOver' = (passedOver \/ (/\ Signal(sig, code, w.out, w.bin) = "close-pass"
                                             /\ ~rres'[val[v].owner].ok))
       ELSE UNCHANGED <<cache, validated, tb, rres, searchedPaths, settledBy, passedOver>>
    /\ UNCHANGED <<platform, tres>>

\* p.stdout.on("data") (line 55), for each chunk of ds in turn
RECURSIVE dataHandler(_, _)
dataHandler(v, ds) ==
    IF ds = <<>> THEN v
    ELSE dataHandler([v EXCEPT !.out = @ \o Head(ds)], Tail(ds))

\* the setTimeout callback (lines 49-53). p.kill() signals the child, which is gone
\* only at its close.
timeoutHandler(v) ==
    Settle([v EXCEPT !.timeExceeded = TRUE, !.st = "killed"], "ValidationTimeout")

\* What the slot keeps of a settled validation: the child and the flag the late
\* handlers read (`out` is not read again once the promise is settled).
Settled(w) ==
    [FreeVal EXCEPT !.st = w.st, !.timeExceeded = w.timeExceeded,
                    !.outcome = w.outcome, !.calls = w.calls]

\* The timer is armed while neither close nor error has cleared it.
validateTimeout(v) ==
    /\ val[v].st = "running"
    /\ Handled(v, timeoutHandler(val[v]), Settled(timeoutHandler(val[v])), "timeout", 0)
    /\ UNCHANGED <<cmpVars, plugVars>>

\* closeHandler without the timeExceeded test of line 59.
closeHandler_flagIgnored(v, code) ==
    IF closeRejects(code, v.out, v.bin) THEN Settle(v, "InvalidBinary")
    ELSE Settle(v, "ok")

\* p.on("close") (lines 57-66)
closeHandler(v, code) ==
    IF v.timeExceeded THEN v
    ELSE IF closeRejects(code, v.out, v.bin) THEN Settle(v, "InvalidBinary")
    ELSE Settle(v, "ok")

\* The child's stdout ends and it closes. Only the close handler reads `out`, so the
\* "data" events that filled it are taken together with the close that follows them.
\* close is the child's last event: the slot is free after it.
validateClose(v, code, ds) ==
    /\ val[v].st \in {"running", "killed"}
    /\ Awaited(v) \/ ds = <<>>
    /\ Handled(v, closeHandler(dataHandler(val[v], ds), code), FreeVal, "close", code)
    /\ UNCHANGED <<cmpVars, plugVars>>

\* p.on("error") (lines 68-71)
errorHandler(v) ==
    IF ~v.timeExceeded THEN Settle(v, "SpawnFailed") ELSE v

\* The child could not be spawned: no process runs, and the slot is free (a close that
\* follows finds the promise settled). An error of a killed child leaves it as it is,
\* to be closed.
validateError(v) ==
    /\ val[v].st \in {"running", "killed"}
    /\ Handled(v, errorHandler(val[v]),
               IF val[v].st = "running" THEN FreeVal ELSE Settled(errorHandler(val[v])),
               "error", 0)
    /\ UNCHANGED <<cmpVars, plugVars>>

\* ------------------------------------------------------ native.ts: testBinaries

\* testBinaries is invoked (line 27): resolveBinary(ffmpegPath, "ffmpeg") starts.
testBinaries(t, ffmpegPath) ==
    /\ tb[t].pc = "idle"
    /\ tres' = [tres EXCEPT ![t] = "pending"]
    /\ resolveBinary(t, ffmpegPath, "ffmpeg")
    /\ UNCHANGED <<cmpVars, plugVars>>

\* resolveBinary(ffmpegPath, "ffmpeg") returned: resolveBinary(ffprobePath, "ffprobe")
\* starts (line 28).
testBinariesProbe(t, ffprobePath) ==
    /\ tb[t].pc = "ret"
    /\ rres[t].ok
    /\ tb[t].bin = "ffmpeg"
    /\ tres' = tres
    /\ resolveBinary(t, ffprobePath, "ffprobe")
    /\ UNCHANGED <<cmpVars, plugVars>>

\* testBinaries that returns once a resolveBinary has returned, the first included.
testBinariesReturn_afterFirst(t) ==
    /\ tb[t].pc = "ret"
    /\ tres' = [tres EXCEPT ![t] = IF rres[t].ok THEN "success" ELSE rres[t].val]
    /\ tb' = [tb EXCEPT ![t] = DoneCall]
    /\ rres' = [rres EXCEPT ![t] = NoRes]
    /\ searchedPaths' = [searchedPaths EXCEPT ![t] = <<>>]
    /\ settledBy' = [settledBy EXCEPT ![t] = NoSignal]
    /\ UNCHANGED <<platform, cache, val, lateSettle, passedOver, validated>>
    /\ UNCHANGED <<cmpVars, plugVars>>

\* testBinaries returns: the second resolveBinary returned (line 29), or one of the
\* two threw (lines 30-32).
testBinariesReturn(t) ==
    /\ tb[t].pc = "ret"
    /\ ~rres[t].ok \/ tb[t].bin = "ffprobe"
    /\ tres' = [tres EXCEPT ![t] = IF rres[t].ok THEN "success" ELSE rres[t].val]
    /\ tb' = [tb EXCEPT ![t] = DoneCall]
    /\ rres' = [rres EXCEPT ![t] = NoRes]
    /\ searchedPaths' = [searchedPaths EXCEPT ![t] = <<>>]
    /\ settledBy' = [settledBy EXCEPT ![t] = NoSignal]
    /\ UNCHANGED <<platform, cache, val, lateSettle, passedOver, validated>>
    /\ UNCHANGED <<cmpVars, plugVars>>

\* ------------------------------------------------------ native.ts: handleFile, pure parts

FileNames == {"clip.mp4", "clip", "a.mov"}

\* node:path extname
extname(fileName) ==
    CASE fileName = "clip.mp4" -> ".mp4"
      [] fileName = "a.mov" -> ".mov"
      [] OTHER -> ""

\* `path.extname(fileName) || ".mp4"` (line 45)
fileExt(fileName) == IF extname(fileName) # "" THEN extname(fileName) ELSE ".mp4"

\* The target sizes a caller may pass, in MB.
Targets == {9, 1}

Digits == {"0", "1", "2", "3", "4", "5", "6", "7", "8", "9"}
digitValue(c) ==
    CASE c = "0" -> 0 [] c = "1" -> 1 [] c = "2" -> 2 [] c = "3" -> 3 [] c = "4" -> 4
      [] c = "5" -> 5 [] c = "6" -> 6 [] c = "7" -> 7 [] c = "8" -> 8 [] OTHER -> 9

WhiteSpace == {" ", "\n"}

\* String.prototype.trim
RECURSIVE trimStart(_)
trimStart(s) == IF s # <<>> /\ Head(s) \in WhiteSpace THEN trimStart(Tail(s)) ELSE s

RECURSIVE trimEnd(_)
trimEnd(s) ==
    IF s # <<>> /\ s[Len(s)] \in WhiteSpace THEN trimEnd(SubSeq(s, 1, Len(s) - 1)) ELSE s

trim(s) == trimEnd(trimStart(s))

\* The run of digits of s from position i on: its value, its length.
RECURSIVE scanDigits(_, _, _, _)
scanDigits(s, i, acc, n) ==
    IF i <= Len(s) /\ s[i] \in Digits
    THEN scanDigits(s, i + 1, acc * 10 + digitValue(s[i]), n + 1)
    ELSE [val |-> acc, n |-> n]

RECURSIVE pow10(_)
pow10(n) == IF n = 0 THEN 1 ELSE 10 * pow10(n - 1)

\* parseFloat: sign, digits, fraction; what follows is ignored; NaN without a digit.
\* The number is num / den, negated when neg.
parseFloat(str) ==
    LET s == trimStart(str)
        signed == s # <<>> /\ Head(s) \in {"-", "+"}
        from == IF signed THEN 2 ELSE 1
        int == scanDigits(s, from, 0, 0)
        dot == from + int.n
        frac == IF dot <= Len(s) /\ s[dot] = "."
                THEN scanDigits(s, dot + 1, 0, 0)
                ELSE [val |-> 0, n |-> 0]
    IN  IF int.n + frac.n = 0
        THEN [nan |-> TRUE, neg |-> FALSE, num |-> 0, den |-> 1]
        ELSE [nan |-> FALSE, neg |-> signed /\ Head(s) = "-",
              num |-> int.val * pow10(frac.n) + frac.val, den |-> pow10(frac.n)]

\* The stdout chunks the probe may write.
ProbeChunks == { <<"1", "2", "0">>, <<".", "5", "\n">>, <<"0">>, <<"N", "/", "A">> }
ProbeChunkSeqs == UNION {[1..n -> ProbeChunks] : n \in 0..MaxChunks}

RECURSIVE concat(_)
concat(ds) == IF ds = <<>> THEN <<>> ELSE Head(ds) \o concat(Tail(ds))

\* getVideoDuration's close handler (lines 104-117): the duration it resolves with,
\* or the rejection.
probeClose(code, out) ==
    IF code # 0 THEN [ok |-> FALSE, num |-> 0, den |-> 1]
    ELSE LET duration == parseFloat(trim(out))
         IN  IF duration.nan \/ duration.neg \/ duration.num = 0
             THEN [ok |-> FALSE, num |-> 0, den |-> 1]
             ELSE [ok |-> TRUE, num |-> duration.num, den |-> duration.den]

\* lines 56-60: target in MB, duration num / den seconds
audioBitrate == 128
bitrateFloor == 100
tgBits(target) == target * 8 * 1024 * 1024
\* videoBitrate with the audio budget taken off the video's.
videoBitrate_lessAudio(target, num, den) ==
    (((tgBits(target) * den) \div num) \div 1000) - audioBitrate

videoBitrate(target, num, den) == ((tgBits(target) * den) \div num) \div 1000

\* The rates among compressVideo's arguments (lines 135-168), in kbit/s: -b:v,
\* -maxrate, -bufsize, -b:a.
encoderArgs(vidBitrate, audio) ==
    [bv |-> vidBitrate, maxrate |-> vidBitrate, bufsize |-> vidBitrate * 2, ba |-> audio]

NoArgs == [bv |-> 0, maxrate |-> 0, bufsize |-> 0, ba |-> 0]

\* ------------------------------------------------------ native.ts: handleFile

IdleJob ==
    [pc |-> "idle", ext |-> "", tsIn |-> 0, tsOut |-> 0, target |-> 0,
     num |-> 0, den |-> 1, bitrate |-> 0, err |-> "none", data |-> 0,
     denied |-> FALSE]

\* What handleFile returns: the data read, or the error (value: the number its
\* message quotes).
NoOutcome == [success |-> FALSE, error |-> "pending", data |-> 0, value |-> 0]
Success(d) == [success |-> TRUE, error |-> "none", data |-> d, value |-> 0]
Failure(e) == [success |-> FALSE, error |-> e, data |-> 0, value |-> 0]
TooLow(b) == [success |-> FALSE, error |-> "BitrateTooLow", data |-> 0, value |-> b]
\* handleFile did not return: its promise rejected.
Thrown == [success |-> FALSE, error |-> "Rejected", data |-> 0, value |-> 0]

\* An encoder child (st: none; running; killed, that is signalled by ffmpeg.kill() and
\* not yet closed; closed; failed, that is never spawned), the arguments it runs
\* with, its exit code once closed, the timer of line 182, and the promise of
\* compressVideo.
NoChild ==
    [st |-> "none", args |-> NoArgs, code |-> -1, timer |-> FALSE, outcome |-> "none",
     calls |-> 0]

\* lines 47-48
inPath(c) == [role |-> "ac_in", ts |-> hf[c].tsIn, ext |-> hf[c].ext]
outPath(c) == [role |-> "ac_out", ts |-> hf[c].tsOut, ext |-> hf[c].ext]

Exists(p) == \E f \in files : f[1] = p
WrittenBy(p) == (CHOOSE f \in files : f[1] = p)[2]
writeTo(fs, p, c) == {f \in fs : f[1] # p} \cup {<<p, c>>}

\* cleanup (lines 202-204): every path is unlinked; an unlink the file system
\* refuses leaves its file where it is.
cleanup(fs, paths, denied) == IF denied THEN fs ELSE {f \in fs : f[1] \notin paths}

\* cleanup built on Promise.all: it rejects when an unlink does.
cleanupRejects_all(denied) == denied

\* Does cleanup reject when an unlink was refused? Promise.allSettled (line 203)
\* never rejects.
cleanupRejects(denied) == FALSE

\* The promise of compressVideo settles once.
SettleEnc(e, o) ==
    [e EXCEPT !.outcome = IF e.outcome = "none" THEN o ELSE e.outcome,
              !.calls = e.calls + 1]

\* the catch of handleFile (lines 73-74): cleanup(inPath, outPath) starts
Catch(c, e) ==
    hf' = [hf EXCEPT ![c].pc = "cleanupErr", ![c].err = e, ![c].target = 0,
                     ![c].num = 0, ![c].den = 1, ![c].bitrate = 0]

\* handleFile is invoked (lines 45-52): the two paths are named from two readings of
\* the clock, `tick` apart, and writeFile(inPath) starts.
handleFile(c, fileName, target, tick) ==
    /\ hf[c].pc = "idle"
    /\ clock + tick <= MaxClock
    /\ clock' = clock + tick
    /\ hf' = [hf EXCEPT ![c] = [IdleJob EXCEPT !.pc = "write", !.ext = fileExt(fileName),
                                               !.tsIn = clock, !.tsOut = clock + tick,
                                               !.target = target]]
    /\ UNCHANGED <<files, hres, pr, en, timedOut>>
    /\ UNCHANGED <<locVars, plugVars>>

\* The clock advances.
Tick ==
    /\ clock < MaxClock
    /\ clock' = clock + 1
    /\ UNCHANGED <<files, hf, hres, pr, en, timedOut>>
    /\ UNCHANGED <<locVars, plugVars>>

\* writeFile settles (line 52); written, getVideoDuration starts (lines 54, 83-92):
\* pullBinary throws inside the promise's executor, or the probe is spawned.
\* A writeFile that fails may leave a file behind.
WriteDone(c, ok, left) ==
    /\ hf[c].pc = "write"
    /\ ok => left
    /\ files' = IF left THEN writeTo(files, inPath(c), c) ELSE files
    /\ IF ~ok THEN Catch(c, "WriteFailed") /\ pr' = pr
       ELSE IF ~pullBinary("ffprobe").ok THEN Catch(c, "NotResolved") /\ pr' = pr
       ELSE /\ hf' = [hf EXCEPT ![c].pc = "probe"]
            /\ pr' = [pr EXCEPT ![c] = "running"]
    /\ UNCHANGED <<clock, hres, en, timedOut>>
    /\ UNCHANGED <<locVars, plugVars>>

\* compressVideo up to its await (lines 134-186), called with the video and audio
\* bitrates (the probed duration is kept beside them): pullBinary throws inside the
\* promise's executor, or the encoder is spawned and the timer armed.
compressVideo(c, vidBitrate, audio, num, den) ==
    IF ~pullBinary("ffmpeg").ok
    THEN /\ Catch(c, "NotResolved")
         /\ en' = en
    ELSE /\ hf' = [hf EXCEPT ![c].pc = "encode", ![c].num = num, ![c].den = den,
                             ![c].bitrate = vidBitrate]
         /\ en' = [en EXCEPT ![c] = [NoChild EXCEPT !.st = "running", !.timer = TRUE,
                                                    !.args = encoderArgs(vidBitrate, audio)]]

\* belowFloor without the test: every bitrate goes on to the encoder.
belowFloor_never(b) == FALSE

\* `if (videoBitrate < 100)` (line 60)
belowFloor(b) == b < bitrateFloor

\* handleFile after getVideoDuration resolved with num / den seconds (lines 56-68)
AfterProbe(c, num, den) ==
    IF belowFloor(videoBitrate(hf[c].target, num, den))
    THEN /\ hf' = [hf EXCEPT ![c].pc = "cleanupLow", ![c].num = num, ![c].den = den,
                             ![c].bitrate = videoBitrate(hf[c].target, num, den)]
         /\ en' = en
    ELSE compressVideo(c, videoBitrate(hf[c].target, num, den), audioBitrate, num, den)

\* The probe's stdout ends and it closes (lines 96-117); the "data" events are
\* taken together with the close that follows them.
ProbeClose(c, code, ds) ==
    /\ pr[c] = "running"
    /\ pr' = [pr EXCEPT ![c] = IF code = 0 THEN "closed" ELSE "closedNonZero"]
    /\ IF probeClose(code, concat(ds)).ok
       THEN AfterProbe(c, probeClose(code, concat(ds)).num, probeClose(code, concat(ds)).den)
       ELSE Catch(c, "ProbeFailed") /\ en' = en
    /\ UNCHANGED <<clock, files, hres, timedOut>>
    /\ UNCHANGED <<locVars, plugVars>>

\* the probe's error event (lines 119-121)
ProbeError(c) ==
    /\ pr[c] = "running"
    /\ pr' = [pr EXCEPT ![c] = "failed"]
    /\ Catch(c, "SpawnFailed")
    /\ UNCHANGED <<clock, files, hres, en, timedOut>>
    /\ UNCHANGED <<locVars, plugVars>>

\* A handler of the encoder of call c left the child, timer and promise as e: when
\* that settled the promise, handleFile goes on (lines 68-74).
EncHandled(c, e) ==
    /\ en' = [en EXCEPT ![c] = e]
    /\ IF en[c].outcome = "none" /\ e.outcome # "none"
       THEN IF e.outcome = "ok"
            THEN hf' = [hf EXCEPT ![c].pc = "read", ![c].target = 0, ![c].num = 0,
                                  ![c].den = 1, ![c].bitrate = 0]
            ELSE Catch(c, e.outcome)
       ELSE hf' = hf

\* encTimeoutHandler that kills the encoder and leaves the rejection to its close.
encTimeoutHandler_killOnly(e) ==
    [e EXCEPT !.timer = FALSE, !.st = IF e.st = "running" THEN "killed" ELSE e.st]

\* the setTimeout callback (lines 182-186); nothing clears this timer
encTimeoutHandler(e) ==
    SettleEnc([e EXCEPT !.timer = FALSE,
                        !.st = IF e.st = "running" THEN "killed" ELSE e.st],
              "Timeout")

EncTimeout(c) ==
    /\ en[c].timer
    /\ EncHandled(c, encTimeoutHandler(en[c]))
    /\ timedOut' = [timedOut EXCEPT
                      ![c] = @ \/ (en[c].st = "running" /\ en[c].outcome = "none")]
    /\ UNCHANGED <<clock, files, hres, pr>>
    /\ UNCHANGED <<locVars, plugVars>>

\* encCloseHandler that resolves whatever the exit code.
encCloseHandler_anyCode(e, code) ==
    [SettleEnc(e, "ok") EXCEPT !.st = "closed", !.code = code, !.args = NoArgs]

\* ffmpeg.on("close") (lines 187-193)
encCloseHandler(e, code) ==
    [(IF code = 0 THEN SettleEnc(e, "ok") ELSE SettleEnc(e, "EncodeFailed"))
        EXCEPT !.st = "closed", !.code = code, !.args = NoArgs]

EncClose(c, code) ==
    /\ en[c].st \in {"running", "killed"}
    /\ EncHandled(c, encCloseHandler(en[c], code))
    /\ UNCHANGED <<clock, files, hres, pr, timedOut>>
    /\ UNCHANGED <<locVars, plugVars>>

\* ffmpeg.on("error") (lines 195-198): the encoder could not be spawned
encErrorHandler(e) ==
    [SettleEnc(e, "SpawnFailed") EXCEPT !.st = "failed", !.args = NoArgs]

EncError(c) ==
    /\ en[c].st = "running"
    /\ EncHandled(c, encErrorHandler(en[c]))
    /\ UNCHANGED <<clock, files, hres, pr, timedOut>>
    /\ UNCHANGED <<locVars, plugVars>>

\* The encoder, while it lives, creates its output file (`-y ... outputPath`, lines
\* 136, 172).
EncWrites(c) ==
    /\ en[c].st \in {"running", "killed"}
    /\ <<outPath(c), c>> \notin files
    /\ files' = writeTo(files, outPath(c), c)
    /\ UNCHANGED <<clock, hf, hres, pr, en, timedOut>>
    /\ UNCHANGED <<locVars, plugVars>>

\* readFile(outPath) settles (lines 70-71); read, cleanup(inPath, outPath) starts
ReadDone(c, ok) ==
    /\ hf[c].pc = "read"
    /\ ok => Exists(outPath(c))
    /\ IF ok
       THEN hf' = [hf EXCEPT ![c].pc = "cleanupOk", ![c].data = WrittenBy(outPath(c))]
       ELSE Catch(c, "ReadFailed")
    /\ UNCHANGED <<clock, files, hres, pr, en, timedOut>>
    /\ UNCHANGED <<locVars, plugVars>>

\* cleanup settles (lines 61, 71, 74), its unlinks refused by the file system or
\* not, and handleFile returns (lines 62-65, 72, 75-78); a cleanup that rejected
\* inside the try would be caught (line 73), one that rejected inside the catch
\* would reject handleFile.
CleanupDone(c, denied) ==
    /\ hf[c].pc \in {"cleanupLow", "cleanupOk", "cleanupErr"}
    /\ files' = cleanup(files,
                        IF hf[c].pc = "cleanupLow" THEN {inPath(c)}
                        ELSE {inPath(c), outPath(c)},
                        denied)
    /\ IF cleanupRejects(denied) /\ hf[c].pc # "cleanupErr"
       THEN /\ hf' = [hf EXCEPT ![c].pc = "cleanupErr", ![c].err = "CleanupFailed",
                                ![c].data = 0, ![c].target = 0, ![c].num = 0,
                                ![c].den = 1, ![c].bitrate = 0,
                                ![c].denied = @ \/ denied]
            /\ hres' = hres
       ELSE /\ hres' = [hres EXCEPT ![c] =
                         CASE cleanupRejects(denied) -> Thrown
                           [] hf[c].pc = "cleanupLow" -> TooLow(hf[c].bitrate)
                           [] hf[c].pc = "cleanupOk" -> Success(hf[c].data)
                           [] OTHER -> Failure(hf[c].err)]
            /\ hf' = [hf EXCEPT ![c].pc = "done", ![c].err = "none", ![c].data = 0,
                                ![c].target = 0, ![c].num = 0, ![c].den = 1,
                                ![c].bitrate = 0, ![c].denied = @ \/ denied]
    /\ UNCHANGED <<clock, pr, en, timedOut>>
    /\ UNCHANGED <<locVars, plugVars>>

\* ------------------------------------------------------------ index.ts: the plugin

Events == 1 .. MaxEvents

\* start() (lines 255-259); adding a listener that is there already changes nothing
start ==
    /\ listeners' = listeners \cup {"drop", "dragover", "paste"}
    /\ started' = TRUE
    /\ UNCHANGED <<locVars, cmpVars, batch, uploads>>

\* stop() (lines 261-264)
stop ==
    /\ listeners' = listeners \ {"drop", "dragover"}
    /\ started' = FALSE
    /\ UNCHANGED <<locVars, cmpVars, batch, uploads>>

\* validateBinaries up to its await (lines 88-90), reached from a hook whose event
\* carries files (isValid, lines 84-86): testBinaries is invoked with the paths of
\* the settings.
validateBinaries(e, isValid, ffmpegPath) ==
    IF isValid THEN testBinaries(e, ffmpegPath) ELSE UNCHANGED vars

\* a paste event reaches the document (lines 103-107)
hookPaste(e, isValid, ffmpegPath) ==
    /\ "paste" \in listeners
    /\ validateBinaries(e, isValid, ffmpegPath)

\* a drop event reaches the document (lines 116-120)
hookDrop(e, isValid, ffmpegPath) ==
    /\ "drop" \in listeners
    /\ validateBinaries(e, isValid, ffmpegPath)

\* The hook of event e goes on after validateBinaries returned true (lines 91-100,
\* 109-113): handleFiles hands a compressible file to processFile, which invokes
\* handleFile with the target of the settings (lines 166-168, 210-220).
processFile(e, fileName, target, tick) ==
    /\ tres[e] = "success"
    /\ handleFile(e, fileName, target, tick)

\* ------------------------------------------------------------ index.ts: handleFiles

\* A batch: `eligible` files to compress (FORMATS and the threshold, line 137), the
\* k-th of them handed to handleFile call k, and `others`; the compression target of
\* the settings; the eligible files whose arrayBuffer() rejected.
NoBatch ==
    [pc |-> "idle", channel |-> FALSE, eligible |-> 0, others |-> 0, target |-> 0,
     failed |-> {}]

\* The files addFiles is given: a file of the batch as it came, or the File
\* processFile makes of what handleFile returned (lines 230-233): the name of
\* eligible file c around the data, which is known by the call whose encoder wrote it.
Other(i) == [kind |-> "other", file |-> i, data |-> 0]
Compressed(c, d) == [kind |-> "compressed", file |-> c, data |-> d]

\* otherFiles (lines 133, 141)
otherFiles(n) == [i \in 1..n |-> Other(i)]

\* UploadManager.addFiles (lines 152-157, 179-184) is called when there is a file
addFiles(ups, fs) == IF Len(fs) > 0 THEN Append(ups, fs) ELSE ups

\* handleFiles up to its await (lines 129-168): the files are sorted into eligible
\* and others; without a selected channel nothing more happens; without an eligible
\* file the others are uploaded at once; else processFile starts for each eligible
\* file and waits for its arrayBuffer().
handleFiles(nEligible, nOthers, channel, target) ==
    /\ batch.pc = "idle"
    /\ nEligible + nOthers > 0
    /\ IF ~channel
       THEN /\ batch' = [NoBatch EXCEPT !.pc = "done", !.eligible = nEligible,
                                        !.others = nOthers]
            /\ uploads' = uploads
       ELSE IF nEligible = 0
       THEN /\ batch' = [NoBatch EXCEPT !.pc = "done", !.channel = TRUE,
                                        !.others = nOthers]
            /\ uploads' = addFiles(uploads, otherFiles(nOthers))
       ELSE /\ batch' = [NoBatch EXCEPT !.pc = "running", !.channel = TRUE,
                                        !.eligible = nEligible, !.others = nOthers,
                                        !.target = target]
            /\ uploads' = uploads
    /\ UNCHANGED <<locVars, cmpVars, listeners, started>>

\* processFile of eligible file c goes on after its arrayBuffer() settled (lines
\* 212-220): handleFile is invoked, or the rejection is caught (lines 240-246).
processFileCall(c, ok, fileName, tick) ==
    /\ batch.pc = "running"
    /\ c \in 1..batch.eligible
    /\ c \notin batch.failed
    /\ hf[c].pc = "idle"
    /\ IF ok
       THEN handleFile(c, fileName, batch.target, tick)
       ELSE /\ batch' = [batch EXCEPT !.failed = @ \cup {c}]
            /\ UNCHANGED <<locVars, cmpVars, listeners, started, uploads>>

\* processFile of eligible file c has returned.
processed(c) == c \in batch.failed \/ hf[c].pc = "done"

\* `results.filter(r => r.success)` and `successful.map(r => r.file)` (lines 169,
\* 171), from eligible file c on
RECURSIVE successfulFiles(_)
successfulFiles(c) ==
    IF c > batch.eligible THEN <<>>
    ELSE IF c \notin batch.failed /\ hres[c].success
    THEN <<Compressed(c, hres[c].data)>> \o successfulFiles(c + 1)
    ELSE successfulFiles(c + 1)

\* toUpload (line 171)
toUpload == successfulFiles(1) \o otherFiles(batch.others)

\* Promise.all resolves when every processFile has returned, and handleFiles goes
\* on to its end (lines 169-199).
handleFilesDone ==
    /\ batch.pc = "running"
    /\ \A c \in 1..batch.eligible : processed(c)
    /\ uploads' = addFiles(uploads, toUpload)
    /\ batch' = [batch EXCEPT !.pc = "done"]
    /\ UNCHANGED <<locVars, cmpVars, listeners, started>>

\* ------------------------------------------------------------ specifications

LocIdle ==
    /\ tb = [t \in TCalls |-> IdleCall]
    /\ rres = [t \in TCalls |-> NoRes]
    /\ tres = [t \in TCalls |-> "none"]
    /\ searchedPaths = [t \in TCalls |-> <<>>]
    /\ val = [v \in VIds |-> FreeVal]
    /\ settledBy = [t \in TCalls |-> NoSignal]
    /\ lateSettle = FALSE
    /\ passedOver = FALSE

CmpIdle ==
    /\ clock = 0
    /\ files = {}
    /\ hf = [c \in CCalls |-> IdleJob]
    /\ hres = [c \in CCalls |-> NoOutcome]
    /\ pr = [c \in CCalls |-> "none"]
    /\ en = [c \in CCalls |-> NoChild]
    /\ timedOut = [c \in CCalls |-> FALSE]

PlugIdle ==
    /\ listeners = {}
    /\ started = FALSE
    /\ batch = NoBatch
    /\ uploads = <<>>

\* The process starts: nothing is resolved, nothing runs, the plugin is not started.
Init ==
    /\ platform \in Platforms
    /\ cache = [b \in Bins |-> None]
    /\ validated = [b \in Bins |-> FALSE]
    /\ LocIdle
    /\ CmpIdle
    /\ PlugIdle

\* Binary resolution: concurrent testBinaries calls.
Next ==
    \/ \E t \in TCalls, p \in UserPaths : testBinaries(t, p)
    \/ \E t \in TCalls, p \in UserPaths : testBinariesProbe(t, p)
    \/ \E t \in TCalls : testBinariesReturn(t)
    \/ \E t \in TCalls, e \in BOOLEAN : FileExistsResult(t, e)
    \/ \E v \in VIds : validateTimeout(v)
    \/ \E v \in VIds, code \in ExitCodes, ds \in ChunkSeqs : validateClose(v, code, ds)
    \/ \E v \in VIds : validateError(v)


Spec == Init /\ [][Next]_vars

\* The states testBinaries leaves the cache in: nothing resolved, the encoder alone
\* (the probe's resolution threw), or both.
CmpInit ==
    /\ platform = "linux"
    /\ \E n \in 0..2 :
          /\ cache = [b \in Bins |-> IF (b = "ffmpeg" /\ n >= 1) \/ (b = "ffprobe" /\ n = 2)
                                     THEN candidatePaths(b)[1] ELSE None]
          /\ validated = [b \in Bins |-> (b = "ffmpeg" /\ n >= 1) \/ (b = "ffprobe" /\ n = 2)]
    /\ LocIdle
    /\ CmpIdle
    /\ PlugIdle

\* Compression: concurrent handleFile calls.
NextCompress ==
    \/ \E c \in CCalls, f \in FileNames, m \in Targets, k \in 0..1 : handleFile(c, f, m, k)
    \/ Tick
    \/ \E c \in CCalls, ok \in BOOLEAN, left \in BOOLEAN : WriteDone(c, ok, left)
    \/ \E c \in CCalls, code \in ExitCodes, ds \in ProbeChunkSeqs : ProbeClose(c, code, ds)
    \/ \E c \in CCalls : ProbeError(c)
    \/ \E c \in CCalls : EncTimeout(c)
    \/ \E c \in CCalls, code \in ExitCodes : EncClose(c, code)
    \/ \E c \in CCalls : EncError(c)
    \/ \E c \in CCalls : EncWrites(c)
    \/ \E c \in CCalls, ok \in BOOLEAN : ReadDone(c, ok)
    \/ \E c \in CCalls, denied \in BOOLEAN : CleanupDone(c, denied)

SpecCompress == CmpInit /\ [][NextCompress]_vars

\* The plugin: started and stopped by its host, its hooks run by the document's
\* events, each event validating the binaries and then compressing a file.
NextPlugin ==
    \/ start
    \/ stop
    \/ \E e \in Events, v \in BOOLEAN, p \in UserPaths : hookPaste(e, v, p)
    \/ \E e \in Events, v \in BOOLEAN, p \in UserPaths : hookDrop(e, v, p)
    \/ \E t \in TCalls, p \in UserPaths : testBinariesProbe(t, p)
    \/ \E t \in TCalls : testBinariesReturn(t)
    \/ \E t \in TCalls, e \in BOOLEAN : FileExistsResult(t, e)
    \/ \E v \in VIds : validateTimeout(v)
    \/ \E v \in VIds, code \in ExitCodes, ds \in ChunkSeqs : validateClose(v, code, ds)
    \/ \E v \in VIds : validateError(v)
    \/ \E e \in Events, f \in FileNames, m \in Targets, k \in 0..1 : processFile(e, f, m, k)
    \/ Tick
    \/ \E c \in CCalls, ok \in BOOLEAN, left \in BOOLEAN : WriteDone(c, ok, left)
    \/ \E c \in CCalls, code \in ExitCodes, ds \in ProbeChunkSeqs : ProbeClose(c, code, ds)
    \/ \E c \in CCalls : ProbeError(c)
    \/ \E c \in CCalls : EncTimeout(c)
    \/ \E c \in CCalls, code \in ExitCodes : EncClose(c, code)
    \/ \E c \in CCalls : EncError(c)
    \/ \E c \in CCalls : EncWrites(c)
    \/ \E c \in CCalls, ok \in BOOLEAN : ReadDone(c, ok)
    \/ \E c \in CCalls, denied \in BOOLEAN : CleanupDone(c, denied)

SpecPlugin == Init /\ [][NextPlugin]_vars

\* A hook of the started plugin has had true from validateBinaries: both tools are
\* in the cache, and handleFiles is about to run.
BatchInit ==
    /\ platform = "linux"
    /\ cache = [b \in Bins |-> candidatePaths(b)[1]]
    /\ validated = [b \in Bins |-> TRUE]
    /\ tb = [t \in TCalls |-> IF t = 1 THEN DoneCall ELSE IdleCall]
    /\ rres = [t \in TCalls |-> NoRes]
    /\ tres = [t \in TCalls |-> IF t = 1 THEN "success" ELSE "none"]
    /\ searchedPaths = [t \in TCalls |-> <<>>]
    /\ val = [v \in VIds |-> FreeVal]
    /\ settledBy = [t \in TCalls |-> NoSignal]
    /\ lateSettle = FALSE
    /\ passedOver = FALSE
    /\ CmpIdle
    /\ listeners = {"drop", "dragover", "paste"}
    /\ started = TRUE
    /\ batch = NoBatch
    /\ uploads = <<>>

\* One batch: handleFiles, its processFile calls and their handleFile calls, with a
\* file system that refuses no unlink.
NextBatch ==
    \/ \E e \in 0..NumCompressCalls, o \in 0..MaxOthers, ch \in BOOLEAN, m \in Targets :
          handleFiles(e, o, ch, m)
    \/ \E c \in CCalls, ok \in BOOLEAN, f \in FileNames, k \in 0..1 :
          processFileCall(c, ok, f, k)
    \/ handleFilesDone
    \/ Tick
    \/ \E c \in CCalls, ok \in BOOLEAN, left \in BOOLEAN : WriteDone(c, ok, left)
    \/ \E c \in CCalls, code \in ExitCodes, ds \in ProbeChunkSeqs : ProbeClose(c, code, ds)
    \/ \E c \in CCalls : ProbeError(c)
    \/ \E c \in CCalls : EncTimeout(c)
    \/ \E c \in CCalls, code \in ExitCodes : EncClose(c, code)
    \/ \E c \in CCalls : EncError(c)
    \/ \E c \in CCalls : EncWrites(c)
    \/ \E c \in CCalls, ok \in BOOLEAN : ReadDone(c, ok)
    \/ \E c \in CCalls : CleanupDone(c, FALSE)

SpecBatch == BatchInit /\ [][NextBatch]_vars

\* ------------------------------------------------------------ properties

\* Call t enters resolveBinary for kind b in this step.
Enters(t, b) ==
    \/ /\ b = "ffmpeg"
       /\ tb[t].pc = "idle"
       /\ tb'[t].pc # "idle"
    \/ /\ b = "ffprobe"
       /\ tb[t].pc = "ret"
       /\ tb[t].bin = "ffmpeg"
       /\ tb'[t].bin = "ffprobe"

\* Call t is inside a resolveBinary that has not returned.
Resolving(t) == tb[t].pc \in {"exists", "validate"}

\* C1: once a handleFile call has returned, no temp file that it wrote (its input
\* or its output) is left in the temp directory, unless the file system refused
\* the deletion.
C1_TempFilesGone ==
    \A c \in CCalls :
        hf[c].pc = "done" /\ ~hf[c].denied => ~(\E f \in files : f[2] = c)

C3_ChildGoneAtTimeout ==
    /\ \A v \in VIds :
          val[v].outcome = "ValidationTimeout" => val[v].st \notin {"running", "killed"}
    /\ \A c \in CCalls :
          en[c].outcome = "Timeout" => en[c].st \notin {"running", "killed"}

\* C4: once the cache holds a path for a kind, that entry never changes, and every
\* resolveBinary entered for the kind returns the cached path in the same step,
\* spawning nothing and checking no file.
C4_Memoized ==
    [][\A b \in Bins :
          cache[b] # None =>
             /\ cache'[b] = cache[b]
             /\ \A t \in TCalls :
                   Enters(t, b) =>
                      /\ tb'[t].pc = "ret"
                      /\ rres'[t].ok
                      /\ rres'[t].val = cache[b]
                      /\ val' = val]_vars

\* C5: a cached path, and a path resolveBinary or pullBinary returns, was written to
\* the cache when its own version query, made for that kind, had exited 0 with the
\* tool named in its output.
C5_ValidatedOnly ==
    /\ \A b \in Bins :
          /\ cache[b] # None => validated[b]
          /\ pullBinary(b).ok => (validated[b] /\ pullBinary(b).val = cache[b])
    /\ \A t \in TCalls : rres[t].ok => rres[t].valid

\* A call given a user path got the cached path of an earlier resolution instead.
C5_Witness ==
    \E t \in TCalls :
        /\ tb[t].pc = "ret"
        /\ rres[t].ok
        /\ rres[t].hit
        /\ tb[t].userPath # None
        /\ rres[t].val # tb[t].userPath

\* C6: the cache entry of a kind is written at most once: it changes only from
\* unset, and the calls that have succeeded for a kind hold the same path.
C6_WrittenOnce ==
    [][/\ \A b \in Bins : cache'[b] # cache[b] => cache[b] = None
       /\ \A t, u \in TCalls :
             (/\ tb'[t].pc = "ret" /\ tb'[u].pc = "ret"
              /\ tb'[t].bin = tb'[u].bin
              /\ rres'[t].ok /\ rres'[u].ok) => rres'[t].val = rres'[u].val]_vars

\* C7 as stated: a call whose user path is relative has returned, with InvalidConfig.
C7_RelativeAlwaysInvalidConfig ==
    \A t \in TCalls :
        (/\ tb[t].pc \in {"exists", "validate", "ret"}
         /\ tb[t].userPath # None
         /\ ~isAbsolute(tb[t].userPath)) =>
            /\ tb[t].pc = "ret"
            /\ rres[t] = Err("InvalidConfig")

\* C7, amended: resolveBinary entered with a relative user path returns in the same
\* step, spawning nothing and checking no file: it throws InvalidConfig when the
\* cache holds no path for the kind, and returns the cached path when it holds one.
C7_RelativeInvalidConfigUnlessCached ==
    [][\A t \in TCalls, b \in Bins :
          (/\ Enters(t, b)
           /\ tb'[t].userPath # None
           /\ ~isAbsolute(tb'[t].userPath)) =>
              /\ tb'[t].pc = "ret"
              /\ val' = val
              /\ cache' = cache
              /\ IF cache[b] = None
                 THEN rres'[t] = Err("InvalidConfig")
                 ELSE rres'[t].ok /\ rres'[t].val = cache[b]]_vars

\* Relative user paths met both ends: one call threw InvalidConfig, another got
\* the cached path.
C7_Witness ==
    \E t, u \in TCalls :
        /\ tb[t].pc = "ret" /\ tb[u].pc = "ret"
        /\ tb[t].userPath # None /\ ~isAbsolute(tb[t].userPath)
        /\ tb[u].userPath # None /\ ~isAbsolute(tb[u].userPath)
        /\ rres[t] = Err("InvalidConfig")
        /\ rres[u].ok

\* C8: a resolveBinary that got past the cache with a user path examines that path
\* alone: it never enters the candidate loop, the child it spawns runs the user
\* path, and when the path is missing or its validation fails, it throws that
\* error (NotFound; InvalidBinary, ValidationTimeout or SpawnFailed by the signal
\* that settled the validation) and the cache is as it was.
C8_UserPathNoFallback ==
    [][\A t \in TCalls :
          (Resolving(t) /\ tb[t].userPath # None /\ tb[t].idx = 0) =>
             /\ tb'[t].idx = 0
             /\ searchedPaths'[t] = <<>>
             /\ tb'[t].pc \in {"exists", "validate", "ret"}
             /\ \A v \in VIds :
                   (val[v].st = "free" /\ val'[v].st = "running" /\ val'[v].owner = t) =>
                      val'[v].path = tb[t].userPath
             /\ (tb'[t].pc = "ret" /\ ~rres'[t].ok) =>
                   /\ cache' = cache
                   /\ rres'[t].val =
                         CASE tb[t].pc = "exists" -> "NotFound"
                           [] settledBy'[t] = "close-fail" -> "InvalidBinary"
                           [] settledBy'[t] = "timeout" -> "ValidationTimeout"
                           [] settledBy'[t] = "error" -> "SpawnFailed"
                           [] OTHER -> "none"
             /\ (tb'[t].pc = "ret" /\ rres'[t].ok) =>
                   /\ settledBy'[t] = "close-pass"
                   /\ rres'[t].val = tb[t].userPath]_vars

\* A user path existed and its validation timed out: the call threw that, having
\* searched no candidate.
C8_Witness ==
    \E t \in TCalls :
        /\ tb[t].pc = "ret"
        /\ tb[t].userPath # None
        /\ rres[t] = Err("ValidationTimeout")
        /\ searchedPaths[t] = <<>>
        /\ cache[tb[t].bin] = None

\* C9: a resolveBinary that got past the cache without a user path has examined
\* the candidates 1..idx in the list's order; each step stays on the candidate
\* (validating it when it exists), moves to the next one, or returns: the current
\* candidate, cached, when its version query exited 0 naming the tool; NotResolved,
\* the cache as it was, after the last one. No candidate that existed was passed
\* without validation, none that passed validation was passed.
C9_CandidateWalk ==
    [][/\ ~passedOver'
       /\ \A t \in TCalls :
             (Resolving(t) /\ tb[t].idx >= 1) =>
                LET c == candidatePaths(tb[t].bin) IN
                /\ tb[t].userPath = None
                /\ searchedPaths[t] = SubSeq(c, 1, tb[t].idx)
                /\ \/ tb'[t] = tb[t]
                   \/ /\ tb[t].pc = "exists"
                      /\ tb'[t] = [tb[t] EXCEPT !.pc = "validate"]
                      /\ \E v \in VIds :
                            /\ val[v].st = "free"
                            /\ val'[v].st = "running"
                            /\ val'[v].path = c[tb[t].idx]
                            /\ val'[v].bin = tb[t].bin
                   \/ /\ tb[t].idx < Len(c)
                      /\ tb'[t] = [tb[t] EXCEPT !.pc = "exists", !.idx = tb[t].idx + 1]
                      /\ cache' = cache
                   \/ /\ tb[t].pc = "validate"
                      /\ tb'[t] = [tb[t] EXCEPT !.pc = "ret"]
                      /\ rres'[t].ok
                      /\ rres'[t].val = c[tb[t].idx]
                      /\ cache'[tb[t].bin] = c[tb[t].idx]
                      /\ settledBy'[t] = "close-pass"
                   \/ /\ tb[t].idx = Len(c)
                      /\ tb'[t] = [tb[t] EXCEPT !.pc = "ret"]
                      /\ rres'[t] = Err("NotResolved")
                      /\ cache' = cache]_vars

\* A call skipped or failed the first candidates and returned a later one, cached.
C9_Witness ==
    \E t \in TCalls :
        /\ tb[t].pc = "ret"
        /\ tb[t].idx >= 2
        /\ rres[t].ok
        /\ ~rres[t].hit
        /\ cache[tb[t].bin] = candidatePaths(tb[t].bin)[tb[t].idx]
        /\ Len(searchedPaths[t]) = tb[t].idx

\* C10: a validation is settled by the first of its signals and by that one alone:
\* the timer gives ValidationTimeout and kills the child, a close gives success
\* exactly when the exit code is 0 and the output names the tool and InvalidBinary
\* otherwise, a spawn error gives SpawnFailed; once the timer has fired, no later
\* handler invokes resolve or reject.
C10_SettledOnce ==
    /\ ~lateSettle
    /\ \A v \in VIds :
          /\ val[v].st = "running" =>
                (val[v].outcome = "none" /\ val[v].calls = 0 /\ ~val[v].timeExceeded)
          /\ val[v].st = "killed" =>
                (val[v].outcome = "ValidationTimeout" /\ val[v].calls = 1
                 /\ val[v].timeExceeded)
    /\ \A t \in TCalls :
          (tb[t].pc = "ret" /\ settledBy[t] # NoSignal) =>
             /\ rres[t].ok <=> settledBy[t] = "close-pass"
             /\ (~rres[t].ok /\ tb[t].idx = 0) =>
                   rres[t].val = CASE settledBy[t] = "timeout" -> "ValidationTimeout"
                                   [] settledBy[t] = "error" -> "SpawnFailed"
                                   [] OTHER -> "InvalidBinary"

\* A validation timed out, its killed child has closed since, and its caller still
\* holds ValidationTimeout.
C10_Witness ==
    \E t \in TCalls :
        /\ tb[t].pc = "ret"
        /\ settledBy[t] = "timeout"
        /\ rres[t] = Err("ValidationTimeout")
        /\ \A v \in VIds : val[v].st = "free"
        /\ \A u \in TCalls \ {t} : tb[u].pc = "idle"

\* floor(targetSizeBytes * 8 / durationSeconds / 1000) for the target and the
\* duration call c holds, the duration being num / den seconds.
ExpectedBitrate(c) ==
    ((hf[c].target * 1024 * 1024 * 8 * hf[c].den) \div 1000) \div hf[c].num

\* C11: the bitrate handleFile computes sends the call to the encoder exactly when
\* it is 100 or more; below 100 no encoder is spawned for the call, then or later,
\* and the call returns BitrateTooLow with the computed value, no temp file that it
\* wrote being left unless the file system refused the deletion.
C11_TooLowAborts ==
    [][\A c \in CCalls :
          /\ (hf[c].pc = "probe" /\ hf'[c].pc \in {"cleanupLow", "encode"}) =>
                /\ hf'[c].bitrate = ExpectedBitrate(c)'
                /\ hf'[c].pc = "cleanupLow" <=> hf'[c].bitrate < 100
          /\ hf[c].pc = "cleanupLow" =>
                /\ en[c] = NoChild /\ en'[c] = NoChild
                /\ hf'[c].pc \in {"cleanupLow", "done"}
                /\ hf'[c].pc = "done" =>
                      /\ hres'[c] = TooLow(hf[c].bitrate)
                      /\ ~hf'[c].denied => ~(\E f \in files' : f[2] = c)
          /\ hres[c].error = "BitrateTooLow" =>
                /\ hres'[c] = hres[c]
                /\ hres[c].value < 100
                /\ en'[c] = NoChild]_vars

\* 1 MB over 120 s is 69 kbit/s: the call returned BitrateTooLow quoting 69.
C11_Witness ==
    \E c \in CCalls :
        /\ hres[c] = TooLow(69)
        /\ en[c] = NoChild
        /\ ~(\E f \in files : f[2] = c)

\* C12: the encoder of a call runs with -b:v and -maxrate at
\* floor(target * 1024 * 1024 * 8 / duration / 1000) kbit/s, -bufsize at twice that
\* and -b:a at 128: the audio budget is not taken off.
C12_BitrateFormula ==
    \A c \in CCalls :
        hf[c].pc = "encode" =>
            /\ hf[c].num > 0
            /\ en[c].args = [bv |-> ExpectedBitrate(c), maxrate |-> ExpectedBitrate(c),
                             bufsize |-> 2 * ExpectedBitrate(c), ba |-> 128]

\* 9 MB over 120 s: the encoder runs at 629 kbit/s, and over 120.5 s at 626.
C12_Witness ==
    \E c, d \in CCalls :
        /\ hf[c].pc = "encode" /\ hf[c].target = 9 /\ hf[c].num = 120 /\ hf[c].den = 1
        /\ en[c].args.bv = 629 /\ en[c].args.bufsize = 1258
        /\ hf[d].pc = "encode" /\ hf[d].target = 9 /\ hf[d].num = 1205 /\ hf[d].den = 10
        /\ en[d].args.bv = 626

\* C13: two handleFile calls in flight at once have different input paths and
\* different output paths.
C13_DistinctTempPaths ==
    \A c, d \in CCalls :
        (c # d /\ hf[c].pc \notin {"idle", "done"} /\ hf[d].pc \notin {"idle", "done"}) =>
            /\ inPath(c) # inPath(d)
            /\ outPath(c) # outPath(d)

ResolveErrors ==
    {"InvalidConfig", "NotFound", "NotResolved", "InvalidBinary", "ValidationTimeout",
     "SpawnFailed"}
CompressErrors ==
    {"WriteFailed", "NotResolved", "ProbeFailed", "SpawnFailed", "BitrateTooLow",
     "EncodeFailed", "Timeout", "ReadFailed"}

\* C15 (as the claim states it): a handleFile call whose cleanup failed returns a
\* failure.
C15_CleanupFailureReported ==
    \A c \in CCalls : hf[c].pc = "done" /\ hf[c].denied => ~hres[c].success

\* C15 (amended): testBinaries and handleFile never reject. testBinaries returns
\* success or the error its resolveBinary threw; handleFile returns the data when
\* the probe and the encoder succeeded, and otherwise the error of the step that
\* failed; a cleanup whose unlinks were refused is never reported and never makes
\* the call reject.
C15_NeverRejects ==
    /\ \A t \in TCalls : tres[t] \in {"none", "pending", "success"} \cup ResolveErrors
    /\ \A c \in CCalls :
          /\ hres[c] # Thrown
          /\ hf[c].pc = "done" =>
                \/ /\ hres[c].success
                   /\ hres[c].error = "none"
                   /\ pr[c] = "closed"
                   /\ en[c].outcome = "ok"
                \/ /\ ~hres[c].success
                   /\ hres[c].error \in CompressErrors

\* C15 happens: after a successful validation a call returned its data although
\* the file system refused its cleanup, and another way: a call returned a failure
\* after a refused cleanup.
C15_Witness ==
    \E c \in CCalls :
        /\ tres[c] = "success"
        /\ hf[c].pc = "done"
        /\ hf[c].denied
        /\ hres[c].success

\* C16: a testBinaries call returns success only when the cache holds a validated
\* path for both tools, which it then keeps; it returns the error that its
\* resolveBinary threw when one did; and no step of a testBinaries call writes a
\* temp file or spawns a probe or an encoder.
C16_TestBinariesReport ==
    [][\A t \in TCalls :
          /\ tres'[t] = "success" =>
                \A b \in Bins : cache'[b] # None /\ validated'[b]
          /\ tres[t] = "pending" /\ tres'[t] # "pending" =>
                /\ ~rres[t].ok => tres'[t] = rres[t].val /\ tres'[t] \in ResolveErrors
                /\ rres[t].ok => tres'[t] = "success"
          /\ tb'[t] # tb[t] => files' = files /\ pr' = pr /\ en' = en /\ hf' = hf
      ]_vars

\* C16 happens: one call returned success with both tools cached, another returned
\* an error.
C16_Witness ==
    \E t, u \in TCalls :
        /\ tres[t] = "success"
        /\ \A b \in Bins : cache[b] # None /\ validated[b]
        /\ tres[u] \in ResolveErrors

\* The place of a position in write, probe, encode, read, cleanup.
StepRank(pc) ==
    CASE pc = "idle" -> 0
      [] pc = "write" -> 1
      [] pc = "probe" -> 2
      [] pc = "encode" -> 3
      [] pc = "read" -> 4
      [] pc = "done" -> 6
      [] OTHER -> 5

\* C17: a handleFile call moves forward only, through write, probe, encode, read,
\* cleanup; its probe is spawned once, when the input is written; its encoder is
\* spawned once, in the step in which the probe closes with code 0 and a positive
\* duration that gives a bitrate of 100 or more; the output is read only in the
\* step in which the encoder closes with code 0; after a failure nothing is spawned.
C17_StepsInOrder ==
    [][\A c \in CCalls :
          /\ hf'[c].pc # hf[c].pc => StepRank(hf'[c].pc) > StepRank(hf[c].pc)
          /\ pr'[c] # pr[c] =>
                \/ /\ pr[c] = "none" /\ pr'[c] = "running"
                   /\ hf[c].pc = "write" /\ hf'[c].pc = "probe"
                   /\ <<inPath(c), c>> \in files'
                \/ /\ pr[c] = "running" /\ pr'[c] \in {"closed", "closedNonZero", "failed"}
                   /\ hf[c].pc = "probe" /\ hf'[c].pc # "probe"
          /\ en'[c].st # en[c].st =>
                \/ /\ en[c].st = "none" /\ en'[c].st = "running"
                   /\ hf[c].pc = "probe" /\ hf'[c].pc = "encode"
                   /\ pr[c] = "running" /\ pr'[c] = "closed"
                   /\ hf'[c].num > 0 /\ hf'[c].bitrate >= 100
                \/ /\ en[c].st = "running" /\ en'[c].st \in {"killed", "closed", "failed"}
                \/ /\ en[c].st = "killed" /\ en'[c].st = "closed"
          /\ (hf'[c].pc = "read" /\ hf[c].pc # "read") =>
                /\ hf[c].pc = "encode"
                /\ en[c].st = "running" /\ en'[c].st = "closed" /\ en'[c].code = 0
          /\ hf[c].pc \in {"cleanupErr", "cleanupLow", "cleanupOk", "done"} =>
                /\ pr'[c] = pr[c]
                /\ en'[c].st # en[c].st => en[c].st \in {"running", "killed"}]_vars

\* A call went through every step: its probe and its encoder closed with code 0,
\* the output was read, and it returned the data.
C17_Witness ==
    \E c \in CCalls :
        /\ hf[c].pc = "done"
        /\ hres[c].success
        /\ pr[c] = "closed"
        /\ en[c].st = "closed" /\ en[c].code = 0

\* C18: a handleFile call that has not returned is in a step that ends without the
\* help of a child process: a file operation in progress, or the wait for the
\* encoder with its timer armed.
C18_PendingCallEnds ==
    \A c \in CCalls :
        hf[c].pc \notin {"idle", "done"} =>
            \/ hf[c].pc \in {"write", "read", "cleanupLow", "cleanupOk", "cleanupErr"}
            \/ hf[c].pc = "encode" /\ en[c].timer

\* C19: the timer callback of compressVideo runs only while the encoder runs, its
\* promise pending and the call waiting for it.
C19_TimerCancelled ==
    [][\A c \in CCalls :
          (en[c].timer /\ ~en'[c].timer) =>
             /\ en[c].st = "running"
             /\ en[c].outcome = "none"
             /\ hf[c].pc = "encode"]_vars

\* C20: while the plugin is stopped (its last call was stop(), or it was never
\* started), the document has no listener of the plugin.
C20_StoppedNoListeners ==
    ~started => listeners = {}

\* What one batch leaves in the upload manager: nothing before the batch is done;
\* then, with a channel selected, at most one addFiles call, made when every
\* processFile had returned, holding each other file once, each eligible file
\* whose handleFile returned success once, as its compressed result, and nothing
\* else. `own`: the compressed result of a file is data that the encoder of its
\* own handleFile call wrote; without it, whatever data that call returned.
BatchUploads(own) ==
    /\ batch.pc # "done" => uploads = <<>>
    /\ batch.pc = "done" /\ ~batch.channel => uploads = <<>>
    /\ batch.pc = "done" /\ batch.channel =>
          LET got == IF uploads = <<>> THEN <<>> ELSE uploads[1]
              ok == {c \in 1..batch.eligible : c \notin batch.failed /\ hres[c].success}
              at(f) == {j \in 1..Len(got) : got[j] = f}
          IN  /\ Len(uploads) <= 1
              /\ \A c \in 1..batch.eligible : processed(c)
              /\ \A i \in 1..batch.others : Cardinality(at(Other(i))) = 1
              /\ \A c \in ok :
                    Cardinality(at(Compressed(c, IF own THEN c ELSE hres[c].data))) = 1
              /\ Len(got) = batch.others + Cardinality(ok)

\* The batch as handleFiles passes it on: each file handleFile returned success
\* for is uploaded once with the data returned for it, the others once, a failed
\* file not at all, in one addFiles call after the last processFile returned.
BatchPassedOn == BatchUploads(FALSE)

\* C21: for one handleFiles batch with a selected channel, the upload manager gets,
\* in a single addFiles call made after every handleFile call of the batch has
\* returned, the files that were not eligible and the compressed result of each
\* eligible file whose compression succeeded, each once, and no file whose
\* compression failed.
C21_BatchUploaded == BatchUploads(TRUE)

====
